---- MODULE Spec2Model ----
(***************************************************************************)
(* Chunked bulk loader (src/dataloader.py): the chunk planner              *)
(* get_file_chunks, the chunk loader process_chunk, the store merger       *)
(* merge_temp_databases, the direct loader load_direct_copy, create_indexes *)
(* and the driver main; and the index builder (src/faster_indexing.py):    *)
(* create_single_index and optimize_index_creation.                        *)
(*                                                                         *)
(* A file is a sequence of bytes; only the distinction newline / other     *)
(* byte matters to the code.  Offsets are 0-based as in the code, so the   *)
(* byte at offset k is file[k + 1].                                        *)
(***************************************************************************)
EXTENDS Integers, Sequences, FiniteSets, Bags, TLC

\* faster_indexing.py, line 34: the sample size 1.0, in tenths.
SampleAll == 10

\* ----------------------------------------------------------------- bounds
MaxFileLen == 4
MaxRowEstimate == 3
MaxChunkSize == 3

\* ------------------------------------------------------------------ bytes
Newline == "\n"
Other == "a"
Bytes == {Newline, Other}

RECURSIVE FilesOfLen(_)
FilesOfLen(n) ==
    IF n = 0 THEN {<<>>}
    ELSE {Append(f, b) : f \in FilesOfLen(n - 1), b \in Bytes}

FilesUpTo(n) == UNION {FilesOfLen(k) : k \in 0..n}

VARIABLES
    file,           \* content of args.file
    total_rows,     \* expected row count handed to the planner (main, line 254)
    chunk_size,     \* args.chunk_size
    workers,        \* args.workers
    direct,         \* args.direct
    fields,         \* faster_indexing: the fields to index, in order
    parallel,       \* faster_indexing: args.parallel
    sample_size,    \* faster_indexing: args.sample_size, in tenths
    skip_analyze,   \* faster_indexing: args.no_analyze
    plan,           \* get_file_chunks: "idle", "call", "loop", "returned", "raised"
    chunk_bytes,    \* get_file_chunks local
    start_pos,      \* get_file_chunks local
    chunks,         \* get_file_chunks local: sequence of <<start_pos, end_pos>>
    pc,             \* position of main
    pool,           \* main local `workers`: size of the worker pool
    loader,         \* chunk id -> state of its process_chunk invocation
    results,        \* results delivered by the pool, in completion order
    temp_dbs,       \* main local: store paths handed to the merger
    rows_processed, \* main local
    rows_loaded,    \* main local: value returned by merge_temp_databases
    temp_dir,       \* whether args.temp_dir exists
    scratch,        \* chunk ids whose chunk_<id>.csv exists
    stores,         \* store path -> the chunk_<id>.duckdb file
    target,         \* rows of table domains in args.db_path, a bag
    attached,       \* store attached to the merge connection as temp_db
    mpc,            \* merge_temp_databases: "idle", "loop", "returned"
    mlist,          \* merge_temp_databases parameter temp_dbs
    mi,             \* merge_temp_databases loop position (1-based)
    m_total,        \* merge_temp_databases local total_rows
    mlog,           \* what happened to each entry processed by this call
    mstart,         \* stores and target when this call began
    calls,          \* number of merge_temp_databases calls made so far
    indexes,        \* fields of table domains of args.db_path that have their idx_<field>
    ipc,            \* optimize_index_creation: "idle", "call", "building", "done", "raised"
    builder,        \* position in fields -> state of its create_single_index call
    temp_catalog,   \* position in fields -> temporary objects of its connection
    analyze         \* lines 115-123: "no", "raised" (connect), "tried" (ANALYZE failed), "done"

inputVars == <<file, total_rows, chunk_size, workers, direct, fields, parallel, sample_size, skip_analyze>>
planVars == <<plan, chunk_bytes, start_pos, chunks>>
mainVars == <<pc, pool, results, temp_dbs, rows_processed, rows_loaded>>
loaderVars == <<loader, scratch>>
mergeVars == <<target, attached, mpc, mlist, mi, m_total, mlog, mstart, calls>>
builderVars == <<ipc, builder, temp_catalog, analyze>>
indexVars == <<indexes, builderVars>>
vars == <<inputVars, planVars, mainVars, loaderVars, temp_dir, stores, mergeVars, indexVars>>

Min(a, b) == IF a <= b THEN a ELSE b

Abs(a) == IF a < 0 THEN 0 - a ELSE a

\* int(x) of the quotient p / q: Python's int() truncates toward zero.
TruncDiv(p, q) ==
    IF (p < 0) = (q < 0) THEN Abs(p) \div Abs(q) ELSE 0 - (Abs(p) \div Abs(q))

\* Lines 67-68: int((file_size / total_rows) * chunk_size).  The code rounds
\* twice in double precision; for operands below 15, and for total_rows = 10
\* with chunk_size = 3 and a file below 60 bytes, the result equals the
\* truncated exact quotient, which is what is computed here.
ChunkBytesRoundedUp(file_size, rows, size) == TruncDiv(file_size * size + rows - 1, rows)
ChunkBytes(file_size, rows, size) == TruncDiv(file_size * size, rows)

\* Line 74.
TentativeEndNoClamp(pos, width, file_size) == pos + width
TentativeEnd(pos, width, file_size) == Min(pos + width, file_size)

\* Lines 79-83: read bytes from end_pos on, stop just past the first newline
\* or at the end of the file.
ScanOneByte(f, pos) == Min(pos + 1, Len(f))
RECURSIVE ScanUpToNewline(_, _)
ScanUpToNewline(f, pos) ==
    IF pos >= Len(f) THEN pos
    ELSE IF f[pos + 1] = Newline THEN pos
    ELSE ScanUpToNewline(f, pos + 1)
RECURSIVE ScanToNewline(_, _)
ScanToNewline(f, pos) ==
    IF pos >= Len(f) THEN pos
    ELSE IF f[pos + 1] = Newline THEN pos + 1
    ELSE ScanToNewline(f, pos + 1)

\* Lines 66-72: everything before the loop.  A zero total_rows raises
\* ZeroDivisionError at line 67.
PlanEnter ==
    /\ plan = "call"
    /\ IF total_rows = 0
       THEN /\ plan' = "raised"
            /\ UNCHANGED <<chunk_bytes, start_pos, chunks>>
       ELSE /\ plan' = "loop"
            /\ chunk_bytes' = ChunkBytes(Len(file), total_rows, chunk_size)
            /\ start_pos' = 0
            /\ chunks' = <<>>
    /\ UNCHANGED <<inputVars, indexVars, mainVars, loaderVars, temp_dir, stores, mergeVars>>

\* Lines 73-86: one iteration of the while loop.  f.seek of a negative
\* offset raises OSError (line 78).
PlanIterate ==
    /\ plan = "loop"
    /\ start_pos < Len(file)
    /\ LET end0 == TentativeEnd(start_pos, chunk_bytes, Len(file))
       IN  IF end0 < Len(file) /\ end0 < 0
           THEN /\ plan' = "raised"
                /\ UNCHANGED <<start_pos, chunks>>
           ELSE LET end_pos == IF end0 < Len(file)
                               THEN ScanToNewline(file, end0)
                               ELSE end0
                IN  /\ chunks' = Append(chunks, <<start_pos, end_pos>>)
                    /\ start_pos' = end_pos
                    /\ plan' = "loop"
    /\ UNCHANGED chunk_bytes
    /\ UNCHANGED <<inputVars, indexVars, mainVars, loaderVars, temp_dir, stores, mergeVars>>

\* Lines 73, 88: the loop condition fails and the list is returned.
PlanReturn ==
    /\ plan = "loop"
    /\ start_pos >= Len(file)
    /\ plan' = "returned"
    /\ UNCHANGED <<chunk_bytes, start_pos, chunks>>
    /\ UNCHANGED <<inputVars, indexVars, mainVars, loaderVars, temp_dir, stores, mergeVars>>

get_file_chunks == PlanEnter \/ PlanIterate \/ PlanReturn

\* ------------------------------------------------------------ the stores
\* Line 183: the size below which a store is taken for empty or corrupt.
MinViableSize == 1000

NoStore == [exists |-> FALSE, size |-> 0, rows |-> {}]

\* Lines 99-115: the store file as the engine leaves it after connect and
\* CREATE TABLE: the table exists and is empty.  A database file written by
\* the engine holds its header blocks, which exceed the threshold.
FreshStore == [exists |-> TRUE, size |-> MinViableSize, rows |-> {}]

\* The rows a store holds after n records were loaded into store p.
RowIds(p, n) == {<<p, k>> : k \in 1..n}

\* ------------------------------------------------------ the chunk loader
\* Lines 128-130: seek to start_pos and read end_pos - start_pos bytes.
ChunkData(f, chunk) == SubSeq(f, chunk[1] + 1, chunk[2])

RECURSIVE CountNewlines(_)
CountNewlines(data) ==
    IF data = <<>> THEN 0
    ELSE (IF Head(data) = Newline THEN 1 ELSE 0) + CountNewlines(Tail(data))

\* Lines 133-135: data.count(b'\n'), plus one if data[-1:] != b'\n'.
CountRowsNoTail(data) == CountNewlines(data)
CountRows(data) ==
    CountNewlines(data)
        + (IF data = <<>> \/ data[Len(data)] # Newline THEN 1 ELSE 0)

\* Line 142: what COPY loads from the scratch file: one row per line of it
\* (the input format is one record per line), a last line without a
\* newline included.
RECURSIVE EngineRecords(_)
EngineRecords(data) ==
    IF data = <<>> THEN 0
    ELSE 1 + EngineRecords(SubSeq(data, ScanToNewline(data, 0) + 1, Len(data)))

\* Line 146: the row count reported by the except branch.
FailedRowsKept(counted) == counted
FailedRows(counted) == 0

\* Line 291: only stores of chunks that reported rows are handed on.
KeepStoreAboveOne(rows) == rows > 1
KeepStoreAlways(rows) == rows >= 0
KeepStore(rows) == rows > 0

Queued == [pc |-> "queued", fault |-> "none", rows |-> 0]

Running == Cardinality({i \in DOMAIN loader : loader[i].pc \in {"opened", "extracted"}})

\* Lines 147-155: the finally branch and the return: the scratch file is
\* removed and (rows_in_chunk, temp_db_path) goes back to the pool.
LoaderReturn(i, fault, rows) ==
    /\ loader' = [loader EXCEPT ![i] = [pc |-> "returned", fault |-> fault, rows |-> rows]]
    /\ scratch' = scratch \ {i}
    /\ results' = Append(results, [id |-> i, rows |-> rows, raised |-> FALSE])

\* Lines 93-121, outside any try: open the store and create its table.  An
\* error here (the store cannot be opened, the table already exists in a
\* store left by an earlier run) leaves process_chunk as an exception, which
\* the pool hands to main in place of a result.
LoaderOpen(i) ==
    /\ pc = "pool"
    /\ loader[i].pc = "queued"
    /\ Running < pool
    /\ \E ok \in BOOLEAN :
         IF ok
         THEN /\ loader' = [loader EXCEPT ![i].pc = "opened"]
              /\ stores' = [stores EXCEPT ![i] = FreshStore]
              /\ UNCHANGED results
         ELSE /\ loader' = [loader EXCEPT ![i] = [pc |-> "raised", fault |-> "open", rows |-> 0]]
              /\ results' = Append(results, [id |-> i, rows |-> 0, raised |-> TRUE])
              /\ UNCHANGED stores
    /\ UNCHANGED <<inputVars, indexVars, planVars, pc, pool, temp_dbs, rows_processed, rows_loaded>>
    /\ UNCHANGED <<scratch, temp_dir, mergeVars>>

\* Lines 124-139 (and 144-155 when a step fails): read the chunk, count its
\* rows, write the scratch file.
LoaderExtract(i) ==
    /\ pc = "pool"
    /\ loader[i].pc = "opened"
    /\ \E fault \in {"none", "read", "write"} :
         LET data == ChunkData(file, chunks[i + 1])
             counted == IF fault = "read" THEN 0 ELSE CountRows(data)
         IN  IF fault = "none"
             THEN /\ loader' = [loader EXCEPT ![i] = [pc |-> "extracted", fault |-> "none", rows |-> counted]]
                  /\ scratch' = scratch \cup {i}
                  /\ UNCHANGED results
             ELSE LoaderReturn(i, fault, FailedRows(counted))
    /\ UNCHANGED <<inputVars, indexVars, planVars, pc, pool, temp_dbs, rows_processed, rows_loaded>>
    /\ UNCHANGED <<stores, temp_dir, mergeVars>>

\* Lines 142-155: bulk-load the scratch file into the store, then the
\* finally branch and the return.
LoaderCopy(i) ==
    /\ pc = "pool"
    /\ loader[i].pc = "extracted"
    /\ \E fault \in {"none", "copy"} :
         LET data == ChunkData(file, chunks[i + 1])
         IN  IF fault = "none"
             THEN /\ stores' = [stores EXCEPT ![i].rows = RowIds(i, EngineRecords(data))]
                  /\ LoaderReturn(i, "none", loader[i].rows)
             ELSE /\ UNCHANGED stores
                  /\ LoaderReturn(i, fault, FailedRows(loader[i].rows))
    /\ UNCHANGED <<inputVars, indexVars, planVars, pc, pool, temp_dbs, rows_processed, rows_loaded>>
    /\ UNCHANGED <<temp_dir, mergeVars>>

process_chunk == \E i \in DOMAIN loader : LoaderOpen(i) \/ LoaderExtract(i) \/ LoaderCopy(i)

\* ------------------------------------------------------ the store merger
\* Line 183: a store is merged only if its file exists and has at least
\* MinViableSize bytes.
ViableIfPresent(store) == store.exists
Viable(store) == store.exists /\ store.size >= MinViableSize

\* The steps of one loop iteration at which the engine or the file system
\* can refuse: ATTACH (189), the count (192), the INSERT (195), DETACH (201)
\* and os.remove (204).
MergeFaults == {"none", "attach", "count", "insert", "detach", "remove"}

\* Lines 206-207: the except branch prints and goes on to the next entry;
\* it touches neither the store file nor the connection.
ExceptRemovesStore(st, p) == [st EXCEPT !.stores[p] = NoStore]
ExceptBranch(st, p) == st

\* Lines 181-207: one iteration of the loop, for the store at path p, with
\* the step named by fault raising.  st holds the store files, the target
\* table, the alias temp_db of the connection and the local total_rows;
\* stop names where the iteration ended.  ATTACH ... AS temp_db is refused
\* by the engine while the alias temp_db is still in use, which is the case
\* after an iteration that raised between ATTACH and DETACH.
MergeOne(st, p, fault) ==
    LET store == st.stores[p]
        held == [st EXCEPT !.attached = {p}]
        inserted == [held EXCEPT !.target = st.target (+) SetToBag(store.rows),
                                 !.total = st.total + Cardinality(store.rows)]
        released == [inserted EXCEPT !.attached = {}]
    IN  IF ~Viable(store) THEN [st EXCEPT !.stop = "skip"]
        ELSE IF fault = "attach" \/ st.attached # {}
             THEN [ExceptBranch(st, p) EXCEPT !.stop = "attach"]
        ELSE IF fault = "count" THEN [ExceptBranch(held, p) EXCEPT !.stop = "count"]
        ELSE IF fault = "insert" THEN [ExceptBranch(held, p) EXCEPT !.stop = "insert"]
        ELSE IF fault = "detach" THEN [ExceptBranch(inserted, p) EXCEPT !.stop = "detach"]
        ELSE IF fault = "remove" THEN [ExceptBranch(released, p) EXCEPT !.stop = "remove"]
        ELSE [released EXCEPT !.stores[p] = NoStore, !.stop = "done"]

MergeState == [stores |-> stores, target |-> target, attached |-> attached,
               total |-> m_total, stop |-> "none"]

\* Lines 160-179: connect to the target, create the table if absent, start
\* the loop.  The connection is new, so nothing is attached to it.
MergeBegin(list) ==
    /\ mpc \in {"idle", "returned"}
    /\ mpc' = "loop"
    /\ mlist' = list
    /\ mi' = 1
    /\ m_total' = 0
    /\ attached' = {}
    /\ mlog' = <<>>
    /\ mstart' = [stores |-> stores, target |-> target]
    /\ calls' = calls + 1
    /\ UNCHANGED target

\* Lines 180-207: the loop body for the next entry of the list.  The fault
\* is the environment's choice; it is only drawn when the iteration gets
\* past the skip test and the ATTACH is not refused for the alias.
MergeStep ==
    /\ mpc = "loop"
    /\ mi <= Len(mlist)
    /\ LET p == mlist[mi]
       IN  \E fault \in (IF Viable(stores[p]) /\ attached = {} THEN MergeFaults ELSE {"none"}) :
             LET st == MergeOne(MergeState, p, fault)
             IN  /\ stores' = st.stores
                 /\ target' = st.target
                 /\ attached' = st.attached
                 /\ m_total' = st.total
                 /\ mlog' = Append(mlog, [path |-> p, fault |-> fault, stop |-> st.stop])
    /\ mi' = mi + 1
    /\ UNCHANGED <<mpc, mlist, mstart, calls>>
    /\ UNCHANGED <<inputVars, indexVars, planVars, mainVars, loaderVars, temp_dir>>

\* Lines 209-210: close the connection (which drops what is attached to it)
\* and return total_rows.
MergeReturn ==
    /\ mpc = "loop"
    /\ mi > Len(mlist)
    /\ mpc' = "returned"
    /\ attached' = {}
    /\ UNCHANGED <<target, mlist, mi, m_total, mlog, mstart, calls>>
    /\ UNCHANGED <<inputVars, indexVars, planVars, mainVars, loaderVars, temp_dir, stores>>

merge_temp_databases == MergeStep \/ MergeReturn

\* ------------------------------------------------------------------ main
\* Lines 250-260 and the call at 267: create the scratch directory if it is
\* missing, then take the direct branch or enter get_file_chunks.
MainSetup ==
    /\ pc = "start"
    /\ temp_dir' = TRUE
    /\ IF direct
       THEN pc' = "direct" /\ UNCHANGED plan
       ELSE pc' = "plan" /\ plan' = "call"
    /\ UNCHANGED <<inputVars, indexVars, chunk_bytes, start_pos, chunks>>
    /\ UNCHANGED <<pool, results, temp_dbs, rows_processed, rows_loaded>>
    /\ UNCHANGED <<loaderVars, stores, mergeVars>>

\* Line 267: an exception of get_file_chunks is not caught by main.
MainPlanRaised ==
    /\ pc = "plan"
    /\ plan = "raised"
    /\ pc' = "aborted"
    /\ UNCHANGED <<inputVars, indexVars, planVars, pool, results, temp_dbs, rows_processed, rows_loaded>>
    /\ UNCHANGED <<loaderVars, temp_dir, stores, mergeVars>>

\* The rows of the target after the whole file was loaded by one COPY.
DirectSource == 0 - 1

\* Lines 260-264 and load_direct_copy, 212-230: open the target and create
\* its table (setup_database), COPY the whole file into it, count the rows
\* of the table and close.  Nothing here is in a try.
MainDirect ==
    /\ pc = "direct"
    /\ \E ok \in BOOLEAN :
         IF ok
         THEN /\ target' = target (+) SetToBag(RowIds(DirectSource, EngineRecords(file)))
              /\ rows_loaded' = BagCardinality(target')
              /\ pc' = "index"
         ELSE /\ pc' = "aborted"
              /\ UNCHANGED <<target, rows_loaded>>
    /\ UNCHANGED <<inputVars, indexVars, planVars, pool, results, temp_dbs, rows_processed>>
    /\ UNCHANGED <<loaderVars, temp_dir, stores>>
    /\ UNCHANGED <<attached, mpc, mlist, mi, m_total, mlog, mstart, calls>>

\* Lines 271-287: number the chunks, size the pool and create it.
\* multiprocessing.Pool raises ValueError for a size below 1.
MainPool ==
    /\ pc = "plan"
    /\ plan = "returned"
    /\ pool' = Min(workers, Len(chunks))
    /\ IF pool' < 1
       THEN /\ pc' = "aborted"
            /\ UNCHANGED <<loader, temp_dbs, rows_processed>>
       ELSE /\ pc' = "pool"
            /\ loader' = [i \in 0..(Len(chunks) - 1) |-> Queued]
            /\ temp_dbs' = <<>>
            /\ rows_processed' = 0
    /\ UNCHANGED <<inputVars, indexVars, planVars, results, rows_loaded>>
    /\ UNCHANGED <<scratch, temp_dir, stores, mergeVars>>

\* Lines 289-293: the body of the loop over imap_unordered, for the next
\* result in completion order.  A result that is an exception is raised
\* again here, which ends the run.
MainCollect ==
    /\ pc = "pool"
    /\ results # <<>>
    /\ LET r == Head(results)
       IN  /\ results' = Tail(results)
           /\ IF r.raised
              THEN /\ pc' = "aborted"
                   /\ UNCHANGED <<loader, temp_dbs, rows_processed>>
              ELSE /\ pc' = "pool"
                   /\ loader' = [loader EXCEPT ![r.id].pc = "collected"]
                   /\ rows_processed' = rows_processed + r.rows
                   /\ temp_dbs' = IF KeepStore(r.rows)
                                  THEN Append(temp_dbs, r.id)
                                  ELSE temp_dbs
    /\ UNCHANGED <<inputVars, indexVars, planVars, pool, rows_loaded>>
    /\ UNCHANGED <<scratch, temp_dir, stores, mergeVars>>

\* Lines 287-299: every result has been consumed, the pool is left and
\* merge_temp_databases is called with temp_dbs.
NoResultWaiting == results = <<>>
AllCollected == \A i \in DOMAIN loader : loader[i].pc = "collected"

MainMerge ==
    /\ pc = "pool"
    /\ AllCollected
    /\ pc' = "merge"
    /\ MergeBegin(temp_dbs)
    /\ UNCHANGED <<inputVars, indexVars, planVars, pool, results, temp_dbs, rows_processed, rows_loaded>>
    /\ UNCHANGED <<loaderVars, temp_dir, stores>>

\* Lines 299-307: take the merger's result and remove the scratch directory
\* if nothing is left in it.
MainCleanup ==
    /\ pc = "merge"
    /\ mpc = "returned"
    /\ rows_loaded' = m_total
    /\ temp_dir' = IF scratch = {} /\ \A p \in DOMAIN stores : ~stores[p].exists
                   THEN FALSE
                   ELSE temp_dir
    /\ pc' = "index"
    /\ UNCHANGED <<inputVars, indexVars, planVars, pool, results, temp_dbs, rows_processed>>
    /\ UNCHANGED <<loaderVars, stores, mergeVars>>

\* Lines 232-234 and 310: main calls create_indexes, which opens the target.
\* An error of connect is not caught.
MainIndex ==
    /\ pc = "index"
    /\ \E ok \in BOOLEAN : pc' = IF ok THEN "indexing" ELSE "aborted"
    /\ UNCHANGED <<inputVars, indexVars, planVars, pool, results, temp_dbs, rows_processed, rows_loaded>>
    /\ UNCHANGED <<loaderVars, temp_dir, stores, mergeVars>>

\* Lines 235-237.
IndexedFields == {"domain", "ip", "country"}

\* Lines 235-247: the three CREATE INDEX IF NOT EXISTS statements, outside
\* any try, then ANALYZE, whose error is swallowed, and close.
create_indexes ==
    /\ pc = "indexing"
    /\ \E ok \in BOOLEAN :
         IF ok
         THEN pc' = "done" /\ indexes' = indexes \cup IndexedFields
         ELSE pc' = "aborted" /\ UNCHANGED indexes
    /\ UNCHANGED <<inputVars, planVars, pool, results, temp_dbs, rows_processed, rows_loaded>>
    /\ UNCHANGED <<loaderVars, temp_dir, stores, mergeVars, builderVars>>

\* ----------------------------------------------------------- a whole run
\* bounds of the run
RunFileLen == 2
MaxWorkers == 2

Init ==
    /\ file \in FilesUpTo(RunFileLen)
    /\ total_rows \in {0 - 1, 0, 1, 2}
    /\ chunk_size \in {0, 1}
    /\ workers \in 1..MaxWorkers
    /\ direct \in BOOLEAN
    /\ fields = <<>>
    /\ parallel = FALSE
    /\ sample_size = SampleAll
    /\ skip_analyze = FALSE
    /\ plan = "idle"
    /\ chunk_bytes = 0
    /\ start_pos = 0
    /\ chunks = <<>>
    /\ pc = "start"
    /\ pool = 0
    /\ loader = <<>>
    /\ results = <<>>
    /\ temp_dbs = <<>>
    /\ rows_processed = 0
    /\ rows_loaded = 0
    /\ temp_dir \in BOOLEAN
    /\ scratch = {}
    /\ stores = [p \in 0..(RunFileLen - 1) |-> NoStore]
    /\ target = EmptyBag
    /\ attached = {}
    /\ mpc = "idle"
    /\ mlist = <<>>
    /\ mi = 1
    /\ m_total = 0
    /\ mlog = <<>>
    /\ mstart = [stores |-> stores, target |-> target]
    /\ calls = 0
    /\ indexes = {}
    /\ ipc = "idle"
    /\ builder = <<>>
    /\ temp_catalog = <<>>
    /\ analyze = "no"

Next ==
    \/ MainSetup
    \/ PlanEnter
    \/ PlanIterate
    \/ PlanReturn
    \/ MainPlanRaised
    \/ MainPool
    \/ \E i \in DOMAIN loader : LoaderOpen(i)
    \/ \E i \in DOMAIN loader : LoaderExtract(i)
    \/ \E i \in DOMAIN loader : LoaderCopy(i)
    \/ MainCollect
    \/ MainMerge
    \/ MergeStep
    \/ MergeReturn
    \/ MainCleanup
    \/ MainDirect
    \/ MainIndex
    \/ create_indexes

Spec == Init /\ [][Next]_vars

\* ---------------------------------------------------- planner on its own
RowEstimates == (0 - 1)..MaxRowEstimate
ChunkSizes == (0 - 1)..MaxChunkSize

InitPlan ==
    /\ file \in FilesUpTo(MaxFileLen)
    /\ total_rows \in RowEstimates
    /\ chunk_size \in ChunkSizes
    /\ workers = 1
    /\ direct = FALSE
    /\ fields = <<>>
    /\ parallel = FALSE
    /\ sample_size = SampleAll
    /\ skip_analyze = FALSE
    /\ plan = "call"
    /\ chunk_bytes = 0
    /\ start_pos = 0
    /\ chunks = <<>>
    /\ pc = "planner"
    /\ pool = 0
    /\ loader = <<>>
    /\ results = <<>>
    /\ temp_dbs = <<>>
    /\ rows_processed = 0
    /\ rows_loaded = 0
    /\ temp_dir = TRUE
    /\ scratch = {}
    /\ stores = <<>>
    /\ target = EmptyBag
    /\ attached = {}
    /\ mpc = "idle"
    /\ mlist = <<>>
    /\ mi = 1
    /\ m_total = 0
    /\ mlog = <<>>
    /\ mstart = [stores |-> stores, target |-> target]
    /\ calls = 0
    /\ indexes = {}
    /\ ipc = "idle"
    /\ builder = <<>>
    /\ temp_catalog = <<>>
    /\ analyze = "no"

NextPlan == PlanEnter \/ PlanIterate \/ PlanReturn

SpecPlan == InitPlan /\ [][NextPlan]_vars

\* get_file_chunks is straight-line code in one process: it waits for
\* nothing, so a step that is possible is taken.
SpecPlanFair == InitPlan /\ [][NextPlan]_vars /\ WF_vars(NextPlan)

\* ----------------------------------------------------- merger on its own
\* bounds of the merger's inputs
NumStores == 2
MaxListLen == 2
MaxCalls == 2

StorePaths == 0..(NumStores - 1)

RECURSIVE ListsOfLen(_)
ListsOfLen(n) ==
    IF n = 0 THEN {<<>>}
    ELSE {Append(l, p) : l \in ListsOfLen(n - 1), p \in StorePaths}

\* A store on disk before a merge: missing, cut below the threshold, or
\* whole.  Store p holds p + 1 rows.
StoreStates(p) ==
    { NoStore,
      [exists |-> TRUE, size |-> MinViableSize - 1, rows |-> RowIds(p, p + 1)],
      [exists |-> TRUE, size |-> MinViableSize, rows |-> RowIds(p, p + 1)] }

InitMerge ==
    /\ file = <<>>
    /\ total_rows = 1
    /\ chunk_size = 1
    /\ workers = 1
    /\ direct = FALSE
    /\ fields = <<>>
    /\ parallel = FALSE
    /\ sample_size = SampleAll
    /\ skip_analyze = FALSE
    /\ plan = "idle"
    /\ chunk_bytes = 0
    /\ start_pos = 0
    /\ chunks = <<>>
    /\ pc = "merger"
    /\ pool = 0
    /\ loader = <<>>
    /\ results = <<>>
    /\ temp_dbs = <<>>
    /\ rows_processed = 0
    /\ rows_loaded = 0
    /\ temp_dir = TRUE
    /\ scratch = {}
    /\ stores \in {s \in [StorePaths -> UNION {StoreStates(p) : p \in StorePaths}] :
                     \A p \in StorePaths : s[p] \in StoreStates(p)}
    /\ target = EmptyBag
    /\ attached = {}
    /\ mpc = "idle"
    /\ mlist = <<>>
    /\ mi = 1
    /\ m_total = 0
    /\ mlog = <<>>
    /\ mstart = [stores |-> stores, target |-> target]
    /\ calls = 0
    /\ indexes = {}
    /\ ipc = "idle"
    /\ builder = <<>>
    /\ temp_catalog = <<>>
    /\ analyze = "no"

\* Any caller of merge_temp_databases (line 157), with any list of paths.
MergeCall ==
    /\ pc = "merger"
    /\ calls < MaxCalls
    /\ \E n \in 0..MaxListLen : \E list \in ListsOfLen(n) : MergeBegin(list)
    /\ UNCHANGED <<inputVars, indexVars, planVars, mainVars, loaderVars, temp_dir, stores>>

NextMerge == MergeCall \/ MergeStep \/ MergeReturn

SpecMerge == InitMerge /\ [][NextMerge]_vars

\* ------------------------------------------- ten rows in chunks of three
\* bounds of the scenario
MaxRowLen == 1

ScenarioRows == 10
ScenarioChunkSize == 3

\* n bytes that are not newlines.
RECURSIVE Filler(_)
Filler(n) == IF n = 0 THEN <<>> ELSE <<Other>> \o Filler(n - 1)

\* A file of rows first..last, each of len bytes and a newline, row `long`
\* (if any) one byte longer; the last row of the file has no newline.
RECURSIVE RowsFile(_, _, _, _)
RowsFile(first, last, len, long) ==
    IF first > last THEN <<>>
    ELSE Filler(IF first = long THEN len + 1 ELSE len)
            \o (IF first = last THEN <<>> ELSE <<Newline>>)
            \o RowsFile(first + 1, last, len, long)

\* Files of ScenarioRows rows without a trailing newline: all rows of one
\* length (long = 0), or one row a byte longer than the others.
ScenarioFiles ==
    {RowsFile(1, ScenarioRows, len, long) : len \in 1..MaxRowLen, long \in 0..ScenarioRows}

\* The row estimate is that of the scenario, or 0, for which the planner
\* raises and main ends at once.
InitScenario ==
    /\ file \in ScenarioFiles
    /\ total_rows \in {0, ScenarioRows}
    /\ chunk_size = ScenarioChunkSize
    /\ workers \in 1..MaxWorkers
    /\ direct \in BOOLEAN
    /\ fields = <<>>
    /\ parallel = FALSE
    /\ sample_size = SampleAll
    /\ skip_analyze = FALSE
    /\ plan = "idle"
    /\ chunk_bytes = 0
    /\ start_pos = 0
    /\ chunks = <<>>
    /\ pc = "start"
    /\ pool = 0
    /\ loader = <<>>
    /\ results = <<>>
    /\ temp_dbs = <<>>
    /\ rows_processed = 0
    /\ rows_loaded = 0
    /\ temp_dir = FALSE
    /\ scratch = {}
    /\ stores = [p \in 0..ScenarioRows |-> NoStore]
    /\ target = EmptyBag
    /\ attached = {}
    /\ mpc = "idle"
    /\ mlist = <<>>
    /\ mi = 1
    /\ m_total = 0
    /\ mlog = <<>>
    /\ mstart = [stores |-> stores, target |-> target]
    /\ calls = 0
    /\ indexes = {}
    /\ ipc = "idle"
    /\ builder = <<>>
    /\ temp_catalog = <<>>
    /\ analyze = "no"

SpecScenario == InitScenario /\ [][Next]_vars

\* ------------------------------------------ faster_indexing.py on its own
\* bounds of the index builder
NumFields == 2

\* Line 14: the default of --fields.
DefaultFields == <<"domain", "ip", "country">>

\* Line 34.
Sampled == sample_size < SampleAll

NotStarted == [pc |-> "pending", fault |-> "none"]

\* Lines 82-104 of optimize_index_creation: open the target, count its rows,
\* close.  connect and the COUNT are not in a try.
OptimizeBegin ==
    /\ ipc = "call"
    /\ \E ok \in BOOLEAN : ipc' = IF ok THEN "building" ELSE "raised"
    /\ UNCHANGED <<indexes, builder, temp_catalog, analyze>>
    /\ UNCHANGED <<inputVars, planVars, mainVars, loaderVars, temp_dir, stores, mergeVars>>

\* Lines 107-112 and 60-75: in parallel mode every field has its own process,
\* all started before any is joined; in serial mode create_single_index is
\* called for a field when the calls for the fields before it have returned.
MayStart(k) ==
    /\ ipc = "building"
    /\ builder[k].pc = "pending"
    /\ parallel \/ \A j \in 1..(k - 1) : builder[j].pc = "closed"

\* An exception leaves create_single_index.  In serial mode it leaves the
\* loop of line 111 and optimize_index_creation with it; in parallel mode it
\* ends the process of this field.
IndexRaise(k, fault) ==
    /\ builder' = [builder EXCEPT ![k] = [pc |-> "raised", fault |-> fault]]
    /\ ipc' = IF parallel THEN ipc ELSE "raised"

\* Lines 21-25 of create_single_index, outside the try: connect and PRAGMA.
IndexOpen(k) ==
    /\ MayStart(k)
    /\ \E ok \in BOOLEAN :
         IF ok
         THEN builder' = [builder EXCEPT ![k].pc = "connected"] /\ UNCHANGED ipc
         ELSE IndexRaise(k, "open")
    /\ UNCHANGED <<indexes, temp_catalog, analyze>>
    /\ UNCHANGED <<inputVars, planVars, mainVars, loaderVars, temp_dir, stores, mergeVars>>

\* Lines 34-39, outside the try: with sampling, CREATE TEMPORARY TABLE
\* sample_<field>_table from a sample of domains.
IndexSample(k) ==
    /\ ipc = "building"
    /\ builder[k].pc = "connected"
    /\ \E ok \in (IF Sampled THEN BOOLEAN ELSE {TRUE}) :
         IF ok
         THEN /\ builder' = [builder EXCEPT ![k].pc = "ready"]
              /\ temp_catalog' = [temp_catalog EXCEPT
                                    ![k] = IF Sampled THEN {"sample_table"} ELSE {}]
              /\ UNCHANGED ipc
         ELSE IndexRaise(k, "sample") /\ UNCHANGED temp_catalog
    /\ UNCHANGED <<indexes, analyze>>
    /\ UNCHANGED <<inputVars, planVars, mainVars, loaderVars, temp_dir, stores, mergeVars>>

BuildFaults == IF Sampled THEN {"none", "index", "full_index", "drop"} ELSE {"none", "index"}

\* Lines 44-49: the tables on which CREATE INDEX IF NOT EXISTS idx_<field>
\* has run without error when the try block is left.  An index belongs to
\* the catalog of its table: the index on the temporary sample table is an
\* entry of the connection's temporary catalog, so its name does not make
\* the statement for domains (line 49) a no-op.
TablesIndexedSampleOnly(sampled, fault) ==
    IF fault = "index" THEN {}
    ELSE IF sampled THEN {"sample_table"} ELSE {"domains"}
TablesIndexed(sampled, fault) ==
    IF fault = "index" THEN {}
    ELSE IF ~sampled THEN {"domains"}
    ELSE IF fault = "full_index" THEN {"sample_table"}
    ELSE {"sample_table", "domains"}

\* Lines 43-55: the try block.  DROP TABLE at line 50 takes the sample table
\* and its index; an error of any statement is printed at line 55.
IndexBuild(k) ==
    /\ ipc = "building"
    /\ builder[k].pc = "ready"
    /\ \E fault \in BuildFaults :
         LET done == TablesIndexed(Sampled, fault)
         IN  /\ indexes' = IF "domains" \in done THEN indexes \cup {fields[k]} ELSE indexes
             /\ temp_catalog' = [temp_catalog EXCEPT
                    ![k] = IF Sampled /\ fault = "none" THEN {}
                           ELSE IF "sample_table" \in done THEN @ \cup {"sample_index"}
                           ELSE @]
             /\ builder' = [builder EXCEPT ![k] = [pc |-> "built", fault |-> fault]]
    /\ UNCHANGED <<ipc, analyze>>
    /\ UNCHANGED <<inputVars, planVars, mainVars, loaderVars, temp_dir, stores, mergeVars>>

\* Line 58: close, which ends the connection's temporary catalog.
IndexClose(k) ==
    /\ ipc = "building"
    /\ builder[k].pc = "built"
    /\ builder' = [builder EXCEPT ![k].pc = "closed"]
    /\ temp_catalog' = [temp_catalog EXCEPT ![k] = {}]
    /\ UNCHANGED <<indexes, ipc, analyze>>
    /\ UNCHANGED <<inputVars, planVars, mainVars, loaderVars, temp_dir, stores, mergeVars>>

create_single_index ==
    \E k \in DOMAIN builder : IndexOpen(k) \/ IndexSample(k) \/ IndexBuild(k) \/ IndexClose(k)

\* Lines 74-75 and 111-112: every process has been joined, or every serial
\* call has returned.
BuildersOver ==
    \A k \in DOMAIN builder :
        builder[k].pc = "closed" \/ (parallel /\ builder[k].pc = "raised")

\* Lines 115-129: ANALYZE unless --no-analyze.  connect at line 117 is not
\* in a try, ANALYZE is.
OptimizeAnalyze ==
    /\ ipc = "building"
    /\ BuildersOver
    /\ IF skip_analyze
       THEN ipc' = "done" /\ UNCHANGED analyze
       ELSE \E outcome \in {"raised", "tried", "done"} :
              /\ analyze' = outcome
              /\ ipc' = IF outcome = "raised" THEN "raised" ELSE "done"
    /\ UNCHANGED <<indexes, builder, temp_catalog>>
    /\ UNCHANGED <<inputVars, planVars, mainVars, loaderVars, temp_dir, stores, mergeVars>>

optimize_index_creation == OptimizeBegin \/ create_single_index \/ OptimizeAnalyze

InitIndex ==
    /\ file = <<>>
    /\ total_rows = 1
    /\ chunk_size = 1
    /\ workers = 1
    /\ direct = FALSE
    /\ \E n \in 1..NumFields : fields = SubSeq(DefaultFields, 1, n)
    /\ parallel \in BOOLEAN
    /\ sample_size \in {1, SampleAll}
    /\ skip_analyze \in BOOLEAN
    /\ plan = "idle"
    /\ chunk_bytes = 0
    /\ start_pos = 0
    /\ chunks = <<>>
    /\ pc = "indexer"
    /\ pool = 0
    /\ loader = <<>>
    /\ results = <<>>
    /\ temp_dbs = <<>>
    /\ rows_processed = 0
    /\ rows_loaded = 0
    /\ temp_dir = FALSE
    /\ scratch = {}
    /\ stores = <<>>
    /\ target = EmptyBag
    /\ attached = {}
    /\ mpc = "idle"
    /\ mlist = <<>>
    /\ mi = 1
    /\ m_total = 0
    /\ mlog = <<>>
    /\ mstart = [stores |-> stores, target |-> target]
    /\ calls = 0
    /\ indexes \in {{}, {DefaultFields[1]}}
    /\ ipc = "call"
    /\ builder = [k \in DOMAIN fields |-> NotStarted]
    /\ temp_catalog = [k \in DOMAIN fields |-> {}]
    /\ analyze = "no"

NextIndex ==
    \/ OptimizeBegin
    \/ \E k \in DOMAIN builder : IndexOpen(k)
    \/ \E k \in DOMAIN builder : IndexSample(k)
    \/ \E k \in DOMAIN builder : IndexBuild(k)
    \/ \E k \in DOMAIN builder : IndexClose(k)
    \/ OptimizeAnalyze

SpecIndex == InitIndex /\ [][NextIndex]_vars

\* ================================================================ claims
\* ------------------------------------------------------------ the planner
\* The ranges of cs are contiguous from 0 to n, each with start <= end.
Covers(cs, n) ==
    IF cs = <<>> THEN n = 0
    ELSE /\ cs[1][1] = 0
         /\ cs[Len(cs)][2] = n
         /\ \A i \in 1..Len(cs) : cs[i][1] <= cs[i][2]
         /\ \A i \in 1..(Len(cs) - 1) : cs[i + 1][1] = cs[i][2]

RECURSIVE ConcatChunks(_, _)
ConcatChunks(f, cs) ==
    IF cs = <<>> THEN <<>>
    ELSE ChunkData(f, Head(cs)) \o ConcatChunks(f, Tail(cs))

\* C1: whenever get_file_chunks returns, its chunks partition [0, file_size):
\* the first starts at 0, each starts where the previous one ends, none has
\* start > end, the last ends at file_size, and the chunk byte ranges
\* concatenated in id order give back the file.
C1_ChunksPartitionFile ==
    plan = "returned" =>
        /\ Covers(chunks, Len(file))
        /\ ConcatChunks(file, chunks) = file

\* A returned plan of several chunks in which the newline scan moved a
\* boundary past the tentative end.
C1_Witness ==
    /\ plan = "returned"
    /\ Len(chunks) >= 2
    /\ \E i \in 1..Len(chunks) : chunks[i][2] > chunks[i][1] + chunk_bytes

\* C2: whenever get_file_chunks returns, the byte just before the end of
\* every chunk but the last is a newline, whatever the row estimate was.
C2_NoRecordSpansChunks ==
    plan = "returned" =>
        \A i \in 1..(Len(chunks) - 1) :
            /\ chunks[i][2] \in 1..Len(file)
            /\ file[chunks[i][2]] = Newline

\* A returned plan of several chunks made with a row estimate that is not
\* the number of rows of the file.
C2_Witness ==
    /\ plan = "returned"
    /\ Len(chunks) >= 2
    /\ total_rows > 0
    /\ total_rows # CountRows(file)

\* ---------------------------------------------------------------- a run
RECURSIVE SumRows(_, _)
SumRows(l, ids) ==
    IF ids = {} THEN 0
    ELSE LET i == CHOOSE j \in ids : TRUE
         IN  l[i].rows + SumRows(l, ids \ {i})

NoLoaderFailure == \A i \in DOMAIN loader : loader[i].fault = "none"

MergeFailed(entry) == entry.stop \in {"attach", "count", "insert", "detach", "remove"}

NoMergeFailure == \A k \in DOMAIN mlog : ~MergeFailed(mlog[k])

\* C3: once the merger has returned to main in a run in which no loader and
\* no store merge failed, the rows reported by the loaders add up to the
\* merger's total, every store whose loader reported rows was merged, and
\* it added to the target exactly as many rows as its loader reported.
C3_LoadedEqualsMerged ==
    (mpc = "returned" /\ pc \in {"index", "indexing", "done"}
        /\ NoLoaderFailure /\ NoMergeFailure) =>
        /\ SumRows(loader, DOMAIN loader) = rows_loaded
        /\ rows_processed = rows_loaded
        /\ \A i \in DOMAIN loader :
             loader[i].rows > 0 =>
                /\ \E k \in DOMAIN mlog : mlog[k].path = i /\ mlog[k].stop = "done"
                /\ Cardinality({r \in BagToSet(target) : r[1] = i}) = loader[i].rows
                /\ \A r \in BagToSet(target) : r[1] = i => CopiesIn(r, target) = 1

\* A finished run without failures that loaded several chunks.
C3_Witness ==
    /\ pc = "done"
    /\ mpc = "returned"
    /\ NoLoaderFailure
    /\ NoMergeFailure
    /\ Len(chunks) >= 2
    /\ rows_loaded >= 2

ExtractionFaults == {"read", "write", "copy"}

\* C4: a process_chunk invocation in which the read, the scratch write or
\* the bulk load failed did not raise: it returned, with zero rows and with
\* the path of its own store.
C4_LoaderFailureIsZeroRows ==
    \A i \in DOMAIN loader :
        loader[i].fault \in ExtractionFaults =>
            /\ loader[i].pc \in {"returned", "collected"}
            /\ loader[i].rows = 0
            /\ loader[i].pc = "returned" =>
                 \E k \in DOMAIN results :
                    results[k] = [id |-> i, rows |-> 0, raised |-> FALSE]

\* A run that finished although the bulk load of one chunk failed.
C4_Witness ==
    /\ pc = "done"
    /\ \E i \in DOMAIN loader : loader[i].fault = "copy" /\ loader[i].pc = "collected"

\* C5: no error of a loader invocation, one at opening the store or creating
\* its table included, leaves the invocation: the invocation returns zero
\* rows, and main is never ended by a loader.
C5_NoLoaderErrorEscapes ==
    /\ \A i \in DOMAIN loader :
         loader[i].fault # "none" =>
            loader[i].pc \in {"returned", "collected"} /\ loader[i].rows = 0
    /\ pc = "aborted" => (plan = "raised" \/ pool < 1)

\* ------------------------------------------------------------ the merger
\* C6: a failure while merging one store is local to it: every later entry
\* for another store that is present and viable when reached, and none of
\* whose own steps is refused, is attached, appended, counted and deleted.
C6_MergeFailureIsLocal ==
    \A j, k \in DOMAIN mlog :
        ( /\ j < k
          /\ MergeFailed(mlog[j])
          /\ mlog[k].path # mlog[j].path
          /\ mlog[k].fault = "none"
          /\ mlog[k].stop # "skip" ) => mlog[k].stop = "done"

FailedBeforeRemove(entry) == entry.stop \in {"attach", "count", "insert", "detach"}

\* C7 as stated: after merge_temp_databases returns, the file of every store
\* whose merge failed at attach, count, insert or detach still exists.
C7_FailedStoreKept_AsStated ==
    mpc = "returned" =>
        \A k \in DOMAIN mlog :
            FailedBeforeRemove(mlog[k]) => stores[mlog[k].path].exists

\* A store file that exists and is gone after the step.
Deleted(p) == stores[p].exists /\ ~stores'[p].exists

\* The step is a loop iteration for path p in which the alias was free and
\* is free again, the rows of p were appended and counted.
FullyMerged(p) ==
    /\ mpc = "loop"
    /\ mi <= Len(mlist)
    /\ mlist[mi] = p
    /\ mi' = mi + 1
    /\ attached = {}
    /\ attached' = {}
    /\ target' = target (+) SetToBag(stores[p].rows)
    /\ m_total' = m_total + Cardinality(stores[p].rows)

\* C7, amended: the file of a store whose merge failed at attach, count,
\* insert or detach still exists, unless a later entry of the same list
\* names the same path and was merged in full; and a store file is deleted
\* only by a loop iteration whose attach, count, insert and detach
\* succeeded.
C7_FailedStoreKept ==
    /\ [](\A k \in DOMAIN mlog :
            FailedBeforeRemove(mlog[k]) =>
               \/ stores[mlog[k].path].exists
               \/ \E j \in (k + 1)..Len(mlog) :
                    mlog[j].path = mlog[k].path /\ mlog[j].stop = "done")
    /\ [][\A p \in DOMAIN stores : Deleted(p) => FullyMerged(p)]_vars

\* A call has returned in which one store failed at detach and is still on
\* disk, and another store was merged and deleted.
C7_Witness ==
    /\ mpc = "returned"
    /\ \E k \in DOMAIN mlog : mlog[k].stop = "detach" /\ stores[mlog[k].path].exists
    /\ \E k \in DOMAIN mlog : mlog[k].stop = "done" /\ ~stores[mlog[k].path].exists

\* The next entry's file is missing or below the threshold.
AtUnviableStore ==
    /\ mpc = "loop"
    /\ mi <= Len(mlist)
    /\ ~stores[mlist[mi]].exists \/ stores[mlist[mi]].size < MinViableSize

\* C8: the iteration for a store that is missing or smaller than the
\* threshold attaches nothing, leaves target, total and every store file as
\* they are, raises nothing, and moves on to the next entry.
C8_UnviableStoreSkipped ==
    [][AtUnviableStore =>
        /\ attached' = attached
        /\ target' = target
        /\ m_total' = m_total
        /\ stores' = stores
        /\ mi' = mi + 1
        /\ mpc' = "loop"
        /\ mlog'[Len(mlog')].stop = "skip"]_vars

\* A store below the threshold was skipped and the next entry was merged.
C8_Witness ==
    /\ Len(mlog) >= 2
    /\ mlog[1].stop = "skip"
    /\ stores[mlog[1].path].exists
    /\ stores[mlog[1].path].size < MinViableSize
    /\ mlog[2].stop = "done"

\* C9: after any sequence of merge_temp_databases calls, no row of an
\* intermediate store is in the target more than once.
C9_RowsMergedAtMostOnce ==
    \A r \in BagToSet(target) : CopiesIn(r, target) <= 1

Orders(n) == {f \in [1..n -> 1..n] : \A i, j \in 1..n : f[i] = f[j] => i = j}

\* merge_temp_databases run from the state st over the entries of log taken
\* in the order order[1], order[2], ..., each with its own fault.
RECURSIVE Replay(_, _, _, _)
Replay(st, log, order, k) ==
    IF k > Len(log) THEN st
    ELSE Replay(MergeOne(st, log[order[k]].path, log[order[k]].fault), log, order, k + 1)

ReplayStart == [stores |-> mstart.stores, target |-> mstart.target,
                attached |-> {}, total |-> 0, stop |-> "none"]

DistinctPaths(list) == \A i, j \in DOMAIN list : list[i] = list[j] => i = j

\* C10: when a call for a list of distinct stores returns, the target and
\* the total are those that any other order of the same entries would have
\* produced.
C10_MergeOrderIrrelevant ==
    (mpc = "returned" /\ DistinctPaths(mlist)) =>
        \A order \in Orders(Len(mlog)) :
            LET other == Replay(ReplayStart, mlog, order, 1)
            IN  other.target = target /\ other.total = m_total

\* ------------------------------------------------------------- the writers
\* Invocation i of process_chunk has been dispatched and has not returned.
InLoader(i) == loader[i].pc \in {"opened", "extracted"}

\* A step of invocation i of process_chunk.
LoaderStep(i) == InLoader(i) \/ (loader[i].pc = "queued" /\ loader'[i].pc # "queued")

\* C11: the target has one writer at a time.  A step of a chunk loader
\* leaves the target, the other loaders' stores and the other loaders'
\* scratch files alone; while merge_temp_databases runs main is in its call,
\* every loader has returned and its result has been consumed, and at most
\* one store is attached; rows are added to the target only by the merger
\* or the direct load, indexes only by create_indexes, which runs only after
\* the merger (chunked path) or the direct load (direct path) has returned.
C11_SingleWriter ==
    /\ [][\A i \in DOMAIN loader :
            (i \in DOMAIN loader' /\ loader'[i] # loader[i] /\ LoaderStep(i)) =>
                /\ target' = target
                /\ indexes' = indexes
                /\ \A p \in DOMAIN stores : p # i => stores'[p] = stores[p]
                /\ scratch' \ {i} = scratch \ {i}]_vars
    /\ [](mpc = "loop" =>
            /\ pc = "merge"
            /\ results = <<>>
            /\ \A i \in DOMAIN loader : loader[i].pc = "collected"
            /\ Cardinality(attached) <= 1)
    /\ [][target' # target =>
            \/ pc = "merge" /\ mpc = "loop" /\ ~direct
            \/ pc = "direct" /\ mpc = "idle" /\ direct]_vars
    /\ [][indexes' # indexes => pc = "indexing"]_vars
    /\ [](pc \in {"index", "indexing"} =>
            /\ \A i \in DOMAIN loader : ~InLoader(i)
            /\ IF direct THEN mpc = "idle" ELSE mpc = "returned")

\* The merger is adding the second store of a run of two chunks.
C11_Witness ==
    /\ mpc = "loop"
    /\ Len(chunks) >= 2
    /\ target # EmptyBag
    /\ attached = {}
    /\ mi = 2

\* ------------------------------------------------- one failed scratch write
WriteFailed == {i \in DOMAIN loader : loader[i].fault = "write"}

OnlyOneWriteFailed ==
    /\ Cardinality(WriteFailed) = 1
    /\ \A i \in DOMAIN loader : loader[i].fault \in {"none", "write"}
    /\ NoMergeFailure

\* C12: once the merger has returned in a run in which the scratch write
\* of exactly one chunk failed and nothing else did, that chunk reported zero
\* rows, its store was not in the merger's list and was never attached,
\* every other chunk's store was merged, and the merger's total is the row
\* count of the file less the row count of the failed chunk.
C12_OneWriteFailure ==
    (mpc = "returned" /\ OnlyOneWriteFailed) =>
        \A i \in WriteFailed :
            /\ loader[i].rows = 0
            /\ \A k \in DOMAIN mlist : mlist[k] # i
            /\ \A k \in DOMAIN mlog : mlog[k].path # i
            /\ \A j \in DOMAIN loader \ {i} :
                 \E k \in DOMAIN mlog : mlog[k].path = j /\ mlog[k].stop = "done"
            /\ m_total = CountRows(file) - CountRows(ChunkData(file, chunks[i + 1]))
            /\ BagCardinality(target) = m_total

\* A run of two chunks whose merger returned after the scratch write of one
\* chunk had failed.
C12_Witness ==
    /\ mpc = "returned"
    /\ OnlyOneWriteFailed
    /\ Len(chunks) = 2
    /\ m_total = 1
    /\ \E i \in WriteFailed : stores[i].exists

\* ------------------------------------------------------- the row convention
\* The rows of f by the stated convention: its newline bytes, plus one if
\* its final byte is not a newline.
RowsOfFile(f) ==
    Cardinality({k \in 1..Len(f) : f[k] = Newline})
        + (IF f[Len(f)] # Newline THEN 1 ELSE 0)

RECURSIVE SumChunkRows(_, _)
SumChunkRows(f, cs) ==
    IF cs = <<>> THEN 0
    ELSE CountRows(ChunkData(f, Head(cs))) + SumChunkRows(f, Tail(cs))

\* C13: whenever get_file_chunks returns for a non-empty file, the row
\* counts process_chunk computes for the chunks add up to the row count of
\* the whole file.
C13_ChunkRowsAddUp ==
    (plan = "returned" /\ file # <<>>) =>
        SumChunkRows(file, chunks) = RowsOfFile(file)

\* A returned plan of several chunks for a file whose last row has no
\* newline.
C13_Witness ==
    /\ plan = "returned"
    /\ Len(chunks) >= 2
    /\ file[Len(file)] # Newline
    /\ SumChunkRows(file, chunks) >= 3

\* ------------------------------------------- ten rows in chunks of three
TenRowsNoTrailingNewline ==
    /\ file # <<>>
    /\ file[Len(file)] # Newline
    /\ RowsOfFile(file) = ScenarioRows
    /\ total_rows = ScenarioRows
    /\ chunk_size = ScenarioChunkSize
    /\ ~direct

\* Every row of the file takes the same number of bytes: with the newline
\* the last row lacks, the file is ScenarioRows rows of `width` bytes, the
\* newlines being the last byte of each.
EqualRows ==
    LET width == (Len(file) + 1) \div ScenarioRows
    IN  /\ Len(file) + 1 = ScenarioRows * width
        /\ \A k \in 1..Len(file) : (file[k] = Newline) <=> (k % width = 0)

ChunkRowCounts == [i \in 1..Len(chunks) |-> CountRows(ChunkData(file, chunks[i]))]

NothingFailed ==
    /\ \A i \in DOMAIN loader : loader[i].pc # "raised"
    /\ NoLoaderFailure
    /\ NoMergeFailure

\* The merger has returned its total to main in a run without failures.
MergedWithoutFailure == mpc = "returned" /\ NothingFailed

\* C14 as stated: every file of ten rows without a trailing newline, planned
\* for 10 expected rows and 3 rows per chunk, gets 4 chunks of 3, 3, 3 and 1
\* rows, and 10 rows are merged when nothing fails.
C14_ThreeThreeThreeOne_AsStated ==
    TenRowsNoTrailingNewline =>
        /\ plan = "returned" => ChunkRowCounts = <<3, 3, 3, 1>>
        /\ MergedWithoutFailure => m_total = ScenarioRows

\* C14: a file of ten rows of equal length without a trailing newline,
\* planned for 10 expected rows and 3 rows per chunk, gets 4 chunks of 3, 3, 3
\* and 1 rows; for every file of ten rows without a trailing newline 10 rows
\* are merged when nothing fails.
C14_ThreeThreeThreeOne ==
    TenRowsNoTrailingNewline =>
        /\ (plan = "returned" /\ EqualRows) => ChunkRowCounts = <<3, 3, 3, 1>>
        /\ MergedWithoutFailure => m_total = ScenarioRows /\ BagCardinality(target) = ScenarioRows

\* A run for ten equal rows whose merger returned 10 after four stores.
C14_Witness ==
    /\ TenRowsNoTrailingNewline
    /\ EqualRows
    /\ MergedWithoutFailure
    /\ Len(mlog) = 4
    /\ m_total = ScenarioRows

\* ---------------------------------------------------- a bad row estimate
\* C15: for total_rows <= 0 get_file_chunks fails before it produces a
\* chunk: it appends no chunk and it does not return.
C15_BadEstimateRejected ==
    total_rows <= 0 => (chunks = <<>> /\ plan # "returned")

\* ------------------------------------------------------------- cleaning up
\* C16: when a run in which nothing failed is over, chunked or direct, no
\* scratch file and no store is left, and the scratch directory, then
\* empty, is gone.
C16_ScratchCleanedUp ==
    (pc = "done" /\ NothingFailed) =>
        /\ scratch = {}
        /\ \A p \in DOMAIN stores : ~stores[p].exists
        /\ ~temp_dir

\* ------------------------------------------------------------ an empty file
\* C20: a chunked run for an empty file whose planner returned goes on to
\* the end: the pool is created, the merger is called with an empty list
\* and returns 0, and main reaches create_indexes.
C20_EmptyFileCompletes ==
    (file = <<>> /\ ~direct /\ total_rows > 0 /\ plan = "returned") =>
        /\ chunks = <<>>
        /\ pc # "aborted" \/ mpc = "returned"
        /\ mpc = "returned" => (mlist = <<>> /\ m_total = 0)

\* ------------------------------------------------ the planner terminates
UsableEstimate == total_rows > 0 /\ chunk_size >= 0

\* C19: for a positive total_rows and a chunk_size that is not negative,
\* every chunk get_file_chunks appends is non-empty, each iteration moves
\* start_pos forward, no iteration raises, and the call returns.
C19_PlannerTerminates ==
    /\ [](UsableEstimate =>
            /\ plan # "raised"
            /\ \A i \in 1..Len(chunks) : chunks[i][1] < chunks[i][2])
    /\ [][(UsableEstimate /\ chunks' # chunks) => start_pos' > start_pos]_vars
    /\ (UsableEstimate ~> plan = "returned")

\* A returned plan computed with a chunk byte width of 0 for a file of
\* several rows.
C19_Witness ==
    /\ UsableEstimate
    /\ plan = "returned"
    /\ chunk_bytes = 0
    /\ Len(chunks) >= 3

\* --------------------------------------------------- the index builder
Attempted(k) == builder[k].pc # "pending"

BuildFailed(k) == builder[k].fault # "none"

\* C17: once optimize_index_creation is over and the build of some field
\* has failed, create_single_index has been called for every field and,
\* unless --no-analyze was given, the ANALYZE section has been entered.
C17_IndexFailureIsLocal ==
    (ipc \in {"done", "raised"} /\ \E k \in DOMAIN builder : BuildFailed(k)) =>
        /\ \A k \in DOMAIN builder : Attempted(k)
        /\ ~skip_analyze => analyze # "no"

\* C18: with sampling, when the try block of create_single_index has been
\* left without a failure, idx_<field> exists on domains and the
\* connection's sample table and its index are gone; both still hold
\* after close.
C18_SampledIndexIsFull ==
    \A k \in DOMAIN builder :
        (Sampled /\ builder[k].pc \in {"built", "closed"} /\ ~BuildFailed(k)) =>
            /\ fields[k] \in indexes
            /\ temp_catalog[k] = {}

\* The try block of a sampled build of a field that had no index has been
\* left without a failure, the connection still open.
C18_Witness ==
    /\ Sampled
    /\ \E k \in DOMAIN builder :
         /\ k > 1
         /\ builder[k] = [pc |-> "built", fault |-> "none"]
         /\ fields[k] \in indexes

====
